---------------------------- MODULE Spec2Model ----------------------------
(***************************************************************************)
(* Model of src/src/DrugDiffusionSimulator.jsx: the React component that   *)
(* animates a 1D slab diffusion profile.                                   *)
(*                                                                         *)
(* Two specifications share the module:                                    *)
(*   Spec      the component as a state machine: its useState cells, the   *)
(*             useMemo cache of the profile, the useEffect that owns the   *)
(*             interval timer, and one action per event handler.           *)
(*   SpecEval  the pure function calcProfile applied to bounded inputs,    *)
(*             in-domain and out-of-domain.                                *)
(*                                                                         *)
(* JavaScript numbers are modelled as exact decimals m * 10^e in normal    *)
(* form (Num); the transcendental part of calcProfile (Math.exp, Math.cos, *)
(* Math.PI) is evaluated in decimal fixed point with Scale units per 1.0.  *)
(***************************************************************************)
EXTENDS Integers, Sequences, FiniteSets

(***************************************************************************)
(* Decimal numbers: [m |-> mantissa, e |-> exponent], value m * 10^e.      *)
(***************************************************************************)
RECURSIVE Pow10(_)
Pow10(k) == IF k <= 0 THEN 1 ELSE 10 * Pow10(k - 1)

RECURSIVE Norm(_)
Norm(a) ==
  IF a.m = 0 THEN [m |-> 0, e |-> 0]
  ELSE IF a.m % 10 = 0 THEN Norm([m |-> a.m \div 10, e |-> a.e + 1])
  ELSE a

Num(m, e) == Norm([m |-> m, e |-> e])

NumInt(k) == Num(k, 0)

NumMul(a, b) == Norm([m |-> a.m * b.m, e |-> a.e + b.e])

\* the mantissas of a and b over their common (smaller) exponent
AlignedM(a, b) == a.m * Pow10(a.e - (IF a.e < b.e THEN a.e ELSE b.e))

RECURSIVE Digits(_)
Digits(k) == IF k < 10 THEN 1 ELSE 1 + Digits(k \div 10)

\* the decimal order of magnitude of a # 0
Order(a) == Digits(IF a.m < 0 THEN 0 - a.m ELSE a.m) + a.e

\* a < b for a, b > 0
PosLess(a, b) ==
  IF Order(a) # Order(b) THEN Order(a) < Order(b)
  ELSE AlignedM(a, b) < AlignedM(b, a)

NumNeg(a) == [m |-> 0 - a.m, e |-> a.e]

NumLess(a, b) ==
  CASE a.m = 0 -> b.m > 0
    [] b.m = 0 -> a.m < 0
    [] a.m < 0 /\ b.m > 0 -> TRUE
    [] a.m > 0 /\ b.m < 0 -> FALSE
    [] a.m > 0 /\ b.m > 0 -> PosLess(a, b)
    [] OTHER -> PosLess(NumNeg(b), NumNeg(a))

\* a and b are in normal form, so equal numbers are equal records
NumLeq(a, b) == a = b \/ NumLess(a, b)

NumZero == [m |-> 0, e |-> 0]

(***************************************************************************)
(* Program constants.                                                      *)
(***************************************************************************)
maxTime == 3600

nTerms == 20

points == 80

tickStep == 5

\* 1e6: metres to microns (line 43); its inverse 1e-6 on line 97
MicronExp == 6

\* the initial useState values
D0 == Num(1, -10)

thickness0 == Num(200, -6)

C00 == Num(1, 0)

\* the range inputs: min, max, step of each slider
DSliderMin == Num(1, -12)

DSliderMax == Num(1, -9)

ThicknessSliderFromZero == [min |-> 0, max |-> 1000, step |-> 10]

\* the thickness slider works in microns
ThicknessSlider == [min |-> 50, max |-> 1000, step |-> 10]

C0SliderMin == Num(5, -1)

C0SliderMax == Num(20, -1)

\* slider positions used as inputs: both ends of each range and the default
DChoices == {DSliderMin, D0, DSliderMax}

ThicknessChoices ==
  {ThicknessSlider.min, ThicknessSlider.min + 15 * ThicknessSlider.step,
   ThicknessSlider.max}

C0Choices == {C0SliderMin, C00, C0SliderMax}

\* interval ids handed out by setInterval are 1, 2, ...; Play is not pressed
\* once MaxTimers ids have been used
MaxTimers == 3

(***************************************************************************)
(* Fixed point for the series of calcProfile: an integer v stands for      *)
(* v / Scale.  Math.PI, Math.exp and Math.cos are evaluated to about four  *)
(* decimals; a concentration is accurate to about 0.01.                    *)
(***************************************************************************)
Scale == Pow10(4)

\* Math.PI
PiFx == 31416

FourOverPiFx == (4 * Scale * Scale) \div PiFx

PiSqOver4Fx == (PiFx * PiFx) \div (4 * Scale)

FxMul(a, b) == (a * b) \div Scale

Abs(k) == IF k < 0 THEN 0 - k ELSE k

\* sum over j >= k of (-1)^j f^j / j!, given term = f^k / k! (Taylor series)
RECURSIVE AltSeries(_, _, _, _)
AltSeries(term, f, k, sign) ==
  IF term = 0 \/ k > 12 THEN 0
  ELSE sign * term + AltSeries(FxMul(term, f) \div (k + 1), f, k + 1, 0 - sign)

\* exp(-f) for 0 <= f <= 1
ExpNegFrac(f) == AltSeries(Scale, f, 0, 1)

RECURSIVE ExpNegInt(_)
ExpNegInt(j) ==
  IF j = 0 THEN Scale
  ELSE IF j > 12 THEN 0
  ELSE FxMul(ExpNegInt(j - 1), ExpNegFrac(Scale))

\* Math.exp(-e) for e >= 0
ExpNeg(e) == FxMul(ExpNegInt(e \div Scale), ExpNegFrac(e % Scale))

\* Math.exp(-e) is representable up to exp(ExpGrowthLimit / Scale)
ExpGrowthLimit == (6 * Scale) \div 10

\* stands for a Math.exp result beyond the fixed-point range (no exp is < 0)
Huge == 0 - 1

\* Math.exp(-e); Huge when the result leaves the fixed-point range
Exp(e) ==
  IF e >= 0 THEN ExpNeg(e)
  ELSE IF 0 - e > ExpGrowthLimit THEN Huge
  ELSE (Scale * Scale) \div ExpNeg(0 - e)

\* sum over j >= k of (-1)^j th^(2j) / (2j)!, given term = th^(2k) / (2k)!
RECURSIVE CosSeries(_, _, _, _)
CosSeries(term, th2, k, sign) ==
  IF term = 0 \/ k > 8 THEN 0
  ELSE sign * term
       + CosSeries(FxMul(term, th2) \div ((2 * k + 1) * (2 * k + 2)), th2,
                   k + 1, 0 - sign)

\* cos of q quarter-turn steps, 0 <= q <= points, one step being pi/(2 points)
CosQuarter ==
  [q \in 0..points |->
     LET th == (q * PiFx) \div (2 * points)
     IN  CosSeries(Scale, FxMul(th, th), 0, 1)]

\* Math.cos of k steps of pi/(2 points), any integer k
Cos(k) ==
  LET r == k % (4 * points)
      a == IF r > 2 * points THEN 4 * points - r ELSE r
  IN  IF a <= points THEN CosQuarter[a] ELSE 0 - CosQuarter[2 * points - a]

\* floor(q * 10^k + rem * 10^k / den) capped at cap: decimal long division
RECURSIVE DivDigits(_, _, _, _, _)
DivDigits(q, rem, den, k, cap) ==
  IF q >= cap THEN cap
  ELSE IF k = 0 THEN q
  ELSE IF q > cap \div 10 THEN cap
  ELSE DivDigits(q * 10 + (rem * 10) \div den, (rem * 10) % den, den, k - 1,
                 cap)

\* floor(num * 10^k / den) capped at cap, for num >= 0, den > 0
DivScaled(num, den, k, cap) ==
  IF k >= 0 THEN DivDigits(num \div den, num % den, den, k, cap)
  ELSE IF k < -9 THEN 0
  ELSE DivDigits((num \div den) \div Pow10(0 - k), 0, den, 0, cap)

\* |D t / thickness^2| in units of 10^-8, capped: beyond the cap every
\* term of the series has decayed to 0
RatioCap == 85 * Pow10(7)

AbsRatio8(d, th, t) ==
  DivScaled(Abs(d.m * t.m), th.m * th.m, 8 + d.e + t.e - 2 * th.e, RatioCap)

\* a * b / 10^4 without leaving 32 bits, for a < 2^15 or so and b < 2^30
MulShift4(a, b) == a * (b \div Pow10(4)) + (a * (b % Pow10(4))) \div Pow10(4)

\* D * Math.pow((2n+1) * Math.PI / (2 * thickness), 2) * t, in fixed point:
\* (2n+1)^2 * (pi^2/4) * (D t / thickness^2), with the sign of D t
Exponent(n, d, th, t) ==
  LET e0  == MulShift4(PiSqOver4Fx, AbsRatio8(d, th, t))
      mag == MulShift4((2 * n + 1) * (2 * n + 1), e0)
  IN  IF d.m * t.m < 0 THEN 0 - mag ELSE mag

\* i / points as a decimal (points divides 10^4 i)
Ratio(i, n) == Num((i * Pow10(4)) \div n, -4)

\* x = (i / points) * thickness, depth in m
SampleX(i, th) == NumMul(Ratio(i, points), th)

\* the angle (2n+1) pi x / (2 thickness) in steps of pi/(2 points)
Angle(n, x, th) ==
  LET px == NumMul(NumInt(points), x)
  IN  (2 * n + 1) * (AlignedM(px, th) \div AlignedM(th, px))

\* const decay = Math.exp(-D * Math.pow(...) * t), the same for every i
Decay(n, d, th, t) == Exp(Exponent(n, d, th, t))

\* seriesSum += term * decay * Math.cos(...), for n = k .. nTerms - 1
RECURSIVE SeriesSum(_, _, _, _)
SeriesSum(k, decay, x, th) ==
  IF k >= nTerms THEN 0
  ELSE FxMul(FxMul(Scale \div (2 * k + 1), decay[k]), Cos(Angle(k, x, th)))
       + SeriesSum(k + 1, decay, x, th)

\* the fixed-point value of s * c0, c0 a decimal
TimesNum(s, c0) ==
  IF c0.e >= 0 THEN c0.m * Pow10(c0.e) * s
  ELSE (c0.m * s) \div Pow10(0 - c0.e)

\* const c = C0 * (1 - (4 / Math.PI) * seriesSum): kind "num" with the
\* fixed-point value v; kind "NaN" when thickness = 0 (the cosine argument
\* is 0/0); kind "huge" when a decay left the fixed-point range (in
\* JavaScript a number of large magnitude, an Infinity or NaN)
Concentration(decay, x, th, c0) ==
  IF th.m = 0 THEN [kind |-> "NaN", v |-> 0]
  ELSE IF \E n \in 0..(nTerms - 1) : decay[n] = Huge
       THEN [kind |-> "huge", v |-> 0]
  ELSE [kind |-> "num",
        v |-> TimesNum(Scale - FxMul(FourOverPiFx,
                                     SeriesSum(0, decay, x, th)), c0)]

LoopIndicesExclusive == 0..(points - 1)

\* for (let i = 0; i <= points; i++)
LoopIndices == 0..points

\* arr.push({ x: x * 1e6, concentration: c }), depth in microns
Sample(i, decay, d, th, c0) ==
  LET x == SampleX(i, th)
  IN  [x |-> NumMul(x, Num(1, MicronExp)),
       concentration |-> Concentration(decay, x, th, c0)]

\* calcProfile(t) with D, thickness and C0 of the render it closes over
calcProfile(d, th, c0, t) ==
  LET decay == [n \in 0..(nTerms - 1) |->
                  IF th.m = 0 THEN Huge ELSE Decay(n, d, th, t)]
  IN  [k \in 1..Cardinality(LoopIndices) |-> Sample(k - 1, decay, d, th, c0)]

(***************************************************************************)
(* State.                                                                  *)
(***************************************************************************)
VARIABLES
  D,            \* useState(1e-10)
  thickness,    \* useState(200e-6), metres
  C0,           \* useState(1.0)
  time,         \* useState(0), seconds
  running,      \* useState(false)
  dataArgs,     \* useMemo cache: the (time, D, thickness, C0) that `data` was
                \* computed from; data = calcProfile at these values
  timers,       \* ids of the intervals the browser currently has scheduled
  cleanupId,    \* id captured by the effect's pending cleanup, 0 when the
                \* effect returned no cleanup
  nextTimerId,  \* next id setInterval returns
  mounted,      \* effects of the first commit have run
  last,         \* history: the handler that produced this state
  evalArgs,     \* SpecEval: arguments of the calcProfile call
  evalResult    \* SpecEval: what the call returned, NoResult before it

uiVars == <<D, thickness, C0, time, running, dataArgs, timers, cleanupId,
            nextTimerId, mounted, last>>

evalVars == <<evalArgs, evalResult>>

vars == <<D, thickness, C0, time, running, dataArgs, timers, cleanupId,
          nextTimerId, mounted, last, evalArgs, evalResult>>

(***************************************************************************)
(* useMemo(() => calcProfile(time), [time, D, thickness, C0])              *)
(***************************************************************************)
DepsStale(s) == <<s.time, s.D, s.thickness>>

\* the dependency array of a render whose values are s
Deps(s) == <<s.time, s.D, s.thickness, s.C0>>

\* one render: the memo is recomputed from the render's own values when a
\* dependency differs from the cached render's, and kept otherwise
Render(t, d, th, c, memo) ==
  LET cur == [time |-> t, D |-> d, thickness |-> th, C0 |-> c]
  IN  IF Deps(cur) = Deps(memo) THEN memo ELSE cur

\* const data = useMemo(...): the profile the chart is given
data ==
  calcProfile(dataArgs.D, dataArgs.thickness, dataArgs.C0,
              NumInt(dataArgs.time))

(***************************************************************************)
(* useEffect(() => { if (!running) return; const id = setInterval(...);    *)
(*                   return () => clearInterval(id); }, [running])         *)
(***************************************************************************)
EffectNoCleanup(run, tm, nid) ==
  IF ~run THEN [timers |-> tm, cleanup |-> 0, next |-> nid]
  ELSE [timers |-> tm \cup {nid}, cleanup |-> 0, next |-> nid + 1]

\* the effect body: the timers, the cleanup it returns, the next free id
Effect(run, tm, nid) ==
  IF ~run THEN [timers |-> tm, cleanup |-> 0, next |-> nid]
  ELSE [timers |-> tm \cup {nid}, cleanup |-> nid, next |-> nid + 1]

CleanupSkipped(cl, tm) == tm

\* the cleanup returned by the previous run of the effect, if any
Cleanup(cl, tm) == IF cl = 0 THEN tm ELSE tm \ {cl}

\* cleanup of the previous effect followed by the effect of this render
ReRunEffect(run, tm, cl, nid) == Effect(run, Cleanup(cl, tm), nid)

(***************************************************************************)
(* The updater passed to setTime by the interval callback.                 *)
(***************************************************************************)
TickUpdateLate(prev) == IF prev > maxTime THEN 0 ELSE prev + tickStep

TickUpdateEarly(prev) ==
  IF prev + tickStep >= maxTime THEN 0 ELSE prev + tickStep

TickUpdate(prev) == IF prev >= maxTime THEN 0 ELSE prev + tickStep

(***************************************************************************)
(* Init: the component after its first render, before its effects ran.     *)
(***************************************************************************)
InitUI ==
  /\ D = D0
  /\ thickness = thickness0
  /\ C0 = C00
  /\ time = 0
  /\ running = FALSE
  /\ dataArgs = [time |-> 0, D |-> D0, thickness |-> thickness0, C0 |-> C00]
  /\ timers = {}
  /\ cleanupId = 0
  /\ nextTimerId = 1
  /\ mounted = FALSE
  /\ last = "init"

(***************************************************************************)
(* The first commit: the effect runs; under React.StrictMode (README) it   *)
(* is cleaned up and run a second time.                                    *)
(***************************************************************************)
Mount ==
  /\ ~mounted
  /\ \E strict \in BOOLEAN :
       LET e1 == Effect(running, timers, nextTimerId)
           e2 == IF strict
                 THEN ReRunEffect(running, e1.timers, e1.cleanup, e1.next)
                 ELSE e1
       IN  /\ timers' = e2.timers
           /\ cleanupId' = e2.cleanup
           /\ nextTimerId' = e2.next
  /\ mounted' = TRUE
  /\ last' = "mount"
  /\ UNCHANGED <<D, thickness, C0, time, running, dataArgs, evalVars>>

\* the interval callback of timer id: setTime((prev) => ...), then a render
Tick ==
  /\ mounted
  /\ \E id \in timers :
       /\ time' = TickUpdate(time)
       /\ dataArgs' = Render(time', D, thickness, C0, dataArgs)
  /\ last' = "tick"
  /\ UNCHANGED <<D, thickness, C0, running, timers, cleanupId, nextTimerId,
                 mounted, evalVars>>

\* Play/Pause: setRunning((r) => !r), a render, then the effect of [running]
Toggle ==
  /\ mounted
  /\ running \/ nextTimerId <= MaxTimers
  /\ running' = ~running
  /\ dataArgs' = Render(time, D, thickness, C0, dataArgs)
  /\ LET e == ReRunEffect(running', timers, cleanupId, nextTimerId)
     IN  /\ timers' = e.timers
         /\ cleanupId' = e.cleanup
         /\ nextTimerId' = e.next
  /\ last' = "toggle"
  /\ UNCHANGED <<D, thickness, C0, time, mounted, evalVars>>

ResetAndPause ==
  /\ mounted
  /\ time' = 0
  /\ running' = FALSE
  /\ dataArgs' = Render(time', D, thickness, C0, dataArgs)
  /\ LET e == IF running
              THEN ReRunEffect(FALSE, timers, cleanupId, nextTimerId)
              ELSE [timers |-> timers, cleanup |-> cleanupId,
                    next |-> nextTimerId]
     IN  /\ timers' = e.timers
         /\ cleanupId' = e.cleanup
         /\ nextTimerId' = e.next
  /\ last' = "reset"
  /\ UNCHANGED <<D, thickness, C0, mounted, evalVars>>

\* Reset: setTime(0), a render
Reset ==
  /\ mounted
  /\ time' = 0
  /\ dataArgs' = Render(time', D, thickness, C0, dataArgs)
  /\ last' = "reset"
  /\ UNCHANGED <<D, thickness, C0, running, timers, cleanupId, nextTimerId,
                 mounted, evalVars>>

\* the D slider: setD(Number(e.target.value))
SetD ==
  /\ mounted
  /\ \E v \in DChoices :
       /\ v # D
       /\ D' = v
  /\ dataArgs' = Render(time, D', thickness, C0, dataArgs)
  /\ last' = "setD"
  /\ UNCHANGED <<thickness, C0, time, running, timers, cleanupId, nextTimerId,
                 mounted, evalVars>>

\* the thickness slider, in microns: setThickness(Number(e.target.value) * 1e-6)
SetThickness ==
  /\ mounted
  /\ \E v \in ThicknessChoices :
       /\ thickness' = NumMul(NumInt(v), Num(1, -MicronExp))
       /\ thickness' # thickness
  /\ dataArgs' = Render(time, D, thickness', C0, dataArgs)
  /\ last' = "setThickness"
  /\ UNCHANGED <<D, C0, time, running, timers, cleanupId, nextTimerId,
                 mounted, evalVars>>

\* the C0 slider: setC0(Number(e.target.value))
SetC0 ==
  /\ mounted
  /\ \E v \in C0Choices :
       /\ v # C0
       /\ C0' = v
  /\ dataArgs' = Render(time, D, thickness, C0', dataArgs)
  /\ last' = "setC0"
  /\ UNCHANGED <<D, thickness, time, running, timers, cleanupId, nextTimerId,
                 mounted, evalVars>>

\* no calcProfile call has returned yet
NoResult == [status |-> "none", profile |-> <<>>]

EvalIdle ==
  /\ evalArgs = [D |-> D0, thickness |-> thickness0, C0 |-> C00, t |-> 0]
  /\ evalResult = NoResult

Init == InitUI /\ EvalIdle

Next == Mount \/ Tick \/ Toggle \/ Reset \/ SetD \/ SetThickness \/ SetC0

Spec == Init /\ [][Next]_vars

(***************************************************************************)
(* SpecEval: calcProfile called once on arguments drawn from EvalInputs.   *)
(***************************************************************************)
EvalD == {Num(-1, -12), Num(0, 0), Num(1, -12), Num(1, -10), Num(1, -9)}

EvalThickness == {Num(-50, -6), Num(0, 0), Num(50, -6), Num(200, -6),
                  Num(1000, -6)}

EvalC0 == {Num(-5, -1), Num(0, 0), Num(5, -1), Num(1, 0)}

EvalT == {-5, 0, 5, 100, maxTime}

EvalInputs ==
  [D : EvalD, thickness : EvalThickness, C0 : EvalC0, t : EvalT]

InitEval ==
  /\ InitUI
  /\ evalArgs \in EvalInputs
  /\ evalResult = NoResult

\* the call: calcProfile validates nothing and throws nothing
Evaluate ==
  /\ evalResult = NoResult
  /\ evalResult' =
       [status |-> "returned",
        profile |-> calcProfile(evalArgs.D, evalArgs.thickness, evalArgs.C0,
                                NumInt(evalArgs.t))]
  /\ UNCHANGED <<uiVars, evalArgs>>

NextEval == Evaluate

SpecEval == InitEval /\ [][NextEval]_vars

(***************************************************************************)
(* Properties of calcProfile, checked under SpecEval.                      *)
(***************************************************************************)
Returned == evalResult.status = "returned"

\* the evaluator's domain: D > 0, L > 0, C0 >= 0, t >= 0
Valid(a) ==
  /\ NumLess(NumZero, a.D)
  /\ NumLess(NumZero, a.thickness)
  /\ NumLeq(NumZero, a.C0)
  /\ a.t >= 0

Depth(k) == evalResult.profile[k].x

StrictlyIncreasingDepth ==
  \A k \in 1..(Len(evalResult.profile) - 1) : NumLess(Depth(k), Depth(k + 1))

\* the thickness in microns, as line 43 converts a depth: L * 1e6
ThicknessMicrons == NumMul(evalArgs.thickness, Num(1, MicronExp))

\* C1 as stated: for valid arguments the profile has 81 samples with strictly
\* increasing depth, the first at depth 0 and the last at depth L, and
\* 0 <= depth <= L for every sample.
C1_DepthSpansZeroToL ==
  (Returned /\ Valid(evalArgs)) =>
    /\ Len(evalResult.profile) = 81
    /\ StrictlyIncreasingDepth
    /\ Depth(1) = NumZero
    /\ Depth(Len(evalResult.profile)) = evalArgs.thickness
    /\ \A k \in 1..Len(evalResult.profile) :
         NumLeq(NumZero, Depth(k)) /\ NumLeq(Depth(k), evalArgs.thickness)

\* C1 amended: every profile has 81 samples in index order, and for a
\* thickness L > 0 the depths are strictly increasing from 0 to L * 1e6 (the
\* depth is emitted in microns), so 0 <= depth <= L * 1e6 for every sample.
C1_DepthSpansZeroToLMicrons ==
  Returned =>
    /\ Len(evalResult.profile) = 81
    /\ NumLess(NumZero, evalArgs.thickness) =>
         /\ StrictlyIncreasingDepth
         /\ Depth(1) = NumZero
         /\ Depth(Len(evalResult.profile)) = ThicknessMicrons
         /\ \A k \in 1..Len(evalResult.profile) :
              NumLeq(NumZero, Depth(k)) /\ NumLeq(Depth(k), ThicknessMicrons)

C1_DefaultSlabProfiled ==
  /\ Returned
  /\ Valid(evalArgs)
  /\ evalArgs.thickness = thickness0
  /\ Depth(41) = Num(100, 0)
  /\ Depth(81) = Num(200, 0)

\* C2: a call with D <= 0, L <= 0, C0 < 0 or t < 0 fails with InvalidParameter
\* and returns no profile.
C2_InvalidParameterRaised ==
  (evalResult # NoResult /\ ~Valid(evalArgs)) =>
    /\ evalResult.status = "InvalidParameter"
    /\ evalResult.profile = <<>>

\* a difference below Tolerance / Scale is within the precision of the series
Tolerance == Scale \div 100

\* C3: for t > 0 and valid (D, L, C0) the sample at depth x = 0 has the
\* surface concentration C0.
C3_SurfaceSampleIsC0 ==
  (Returned /\ Valid(evalArgs) /\ evalArgs.t > 0) =>
    /\ Depth(1) = NumZero
    /\ evalResult.profile[1].concentration.kind = "num"
    /\ Abs(evalResult.profile[1].concentration.v
           - TimesNum(Scale, evalArgs.C0)) <= Tolerance

(***************************************************************************)
(* Properties of the component, checked under Spec.                        *)
(***************************************************************************)
\* C4: a tick happens only while running and moves time by exactly tickStep,
\* or to 0 when the step would pass the horizon maxTime.
C4_TickStep ==
  [][last' = "tick" =>
       /\ running
       /\ time' = IF time + tickStep > maxTime THEN 0 ELSE time + tickStep]_vars

C4_WrapSeen == last = "tick" /\ time = 0 /\ running

\* C5: the profile handed to the chart is the one computed from the current
\* time, D, thickness and C0.
C5_ProfileIsCurrent ==
  dataArgs = [time |-> time, D |-> D, thickness |-> thickness, C0 |-> C0]

C5_RecomputedAfterSlider ==
  /\ last = "setC0"
  /\ time > 0
  /\ C0 # C00
  /\ dataArgs.C0 = C0

\* C6: Reset is possible in every state of the mounted component; it sets
\* time to 0 and leaves running, the timer, D, thickness and C0 as they were.
C6_ResetFrame ==
  /\ [](mounted => ENABLED Reset)
  /\ [][last' = "reset" =>
          /\ time' = 0
          /\ running' = running
          /\ timers' = timers
          /\ D' = D
          /\ thickness' = thickness
          /\ C0' = C0]_vars

C6_ResetWhileRunning ==
  last = "reset" /\ running /\ timers # {} /\ time = 0 /\ D # D0

\* C7: no step taken while paused changes time, except Reset; Play/Pause
\* never changes time; ticks happen only while running, and the first tick
\* after Play continues from the paused time.
C7_PauseFreezesTime ==
  [][/\ last' = "toggle" => time' = time
     /\ (~running /\ last' # "reset") => time' = time
     /\ last' = "tick" => running
     /\ (last = "toggle" /\ last' = "tick") =>
          time' = IF time >= maxTime THEN 0 ELSE time + tickStep]_vars

C7_PausedMidRun == ~running /\ last = "toggle" /\ time > 0 /\ timers = {}

\* C8: the values the component holds and passes to calcProfile are in the
\* evaluator's domain, and within the slider ranges.
C8_DomainHolds ==
  /\ \A a \in {[D |-> D, thickness |-> thickness, C0 |-> C0, t |-> time],
              [D |-> dataArgs.D, thickness |-> dataArgs.thickness,
               C0 |-> dataArgs.C0, t |-> dataArgs.time]} : Valid(a)
  /\ NumLeq(DSliderMin, D) /\ NumLeq(D, DSliderMax)
  /\ NumLeq(Num(50, -6), thickness) /\ NumLeq(thickness, Num(1000, -6))
  /\ NumLeq(C0SliderMin, C0) /\ NumLeq(C0, C0SliderMax)

C8_SliderMinimaAtHorizon ==
  /\ D = DSliderMin
  /\ thickness = Num(50, -6)
  /\ C0 = C0SliderMin
  /\ time = maxTime

\* C9: time is always a multiple of 5 between 0 and 3600, and a tick wraps
\* to 0 only from 3600 itself.
C9_TimeWithinHorizon ==
  /\ [](time % 5 = 0 /\ 0 <= time /\ time <= 3600)
  /\ [][(last' = "tick" /\ time' = 0) => time = 3600]_vars

C9_HorizonShown == last = "tick" /\ time = 3600

\* C10: at most one interval is scheduled, and one is scheduled exactly
\* when running.
C10_OneTimerIffRunning ==
  /\ Cardinality(timers) <= 1
  /\ (timers # {}) <=> running

C10_TimerAfterReplay == running /\ timers = {2} /\ time > 0

=============================================================================
